---- MODULE Spec2Model ----
(***************************************************************************)
(* Model of the two utilities of l2_saas_weather:                          *)
(*   - weather_app/app.py: the Flask weather proxy (Spec)                  *)
(*   - isw_data_parser/dataset.py: the CSV dataset builder (SpecDataset)   *)
(* JSON values are modelled by small named values.  A Python dict over a   *)
(* bounded universe of keys is a total function whose value Absent marks a *)
(* key that the dict does not hold.                                        *)
(***************************************************************************)
EXTENDS Integers, Sequences, FiniteSets, TLC

VARIABLES API_TOKEN, WEATHER_API_KEY, pc, endpoint, json_data, now, start_dt,
          calls, reply, auth, response,
          tree, csv_file, runs

wvars == <<API_TOKEN, WEATHER_API_KEY, pc, endpoint, json_data, now, start_dt,
           calls, reply, auth, response>>
dvars == <<tree, csv_file, runs>>
vars == <<wvars, dvars>>

(***************************************************************************)
(* Bounds of the model.                                                    *)
(***************************************************************************)
\* wall-clock readings range over 0..MaxTime (in microsecond units)
MaxTime == 2
\* microseconds per second, scaled down from 10^6
UsPerSec == 2
\* seconds per day, scaled down from 86400
SecPerDay == 4

(***************************************************************************)
(* JSON / Python values.                                                   *)
(***************************************************************************)
\* Python None: JSON null, an unset environment variable, dict.get of a missing key
None == "None"
\* marks a key that a dict does not hold
Absent == "<absent>"

\* dict.get(key): the value, or None if the key is missing
Get(d, k) == IF d[k] = Absent THEN None ELSE d[k]

\* Python truth value of a scalar: None, "" and 0 are false
FalsyScalars == {None, "", "int:0"}
Truthy(v) == v \notin FalsyScalars

\* the keys a "weather" object of a request may hold, and the values tried for each
WeatherKeys == {"q", "lang", "days", "dt", "end_dt"}
WeatherKeyValues(k) ==
    CASE k = "q"      -> {Absent, "Paris"}
      [] k = "lang"   -> {Absent, "uk"}
      [] k = "days"   -> {Absent, "int:0", "int:20"}
      [] k = "dt"     -> {Absent, "2009-12-31"}
      [] k = "end_dt" -> {Absent, None, "", "2020-01-05"}
WeatherObjects == {w \in [WeatherKeys -> UNION {WeatherKeyValues(k) : k \in WeatherKeys}] :
                      \A k \in WeatherKeys : w[k] \in WeatherKeyValues(k)}
EmptyObject == [k \in WeatherKeys |-> Absent]

\* the "weather" field of a body: missing, null, a string, or an object
WeatherFields ==
    {[kind |-> "absent", str |-> "", obj |-> EmptyObject],
     [kind |-> "null", str |-> "", obj |-> EmptyObject],
     [kind |-> "string", str |-> "", obj |-> EmptyObject],
     [kind |-> "string", str |-> "Paris", obj |-> EmptyObject]}
    \cup {[kind |-> "object", str |-> "", obj |-> w] : w \in WeatherObjects}

\* the "token" field of a body: missing, null, or a string
TokenValues == {Absent, None, "tokA", "tokB"}

\* request bodies as request.get_json() returns them: a dict, or a JSON value that is no dict
Bodies ==
    {[isObject |-> TRUE, token |-> t, weather |-> w] : t \in TokenValues, w \in WeatherFields}
    \cup {[isObject |-> FALSE, token |-> Absent,
           weather |-> [kind |-> "absent", str |-> "", obj |-> EmptyObject]]}

Endpoints == {"current", "forecast", "history"}

NoResponse == [status |-> 0, body |-> <<>>]
NoBody == [isObject |-> FALSE, token |-> Absent,
           weather |-> [kind |-> "absent", str |-> "", obj |-> EmptyObject]]

(***************************************************************************)
(* authorize_and_validate_request                                          *)
(***************************************************************************)
\* json_data.get("token")
GetToken(body) == IF body.token = Absent THEN None ELSE body.token

\* the check for a missing token left out
TokenIsNone_Unchecked(body) == FALSE

\* json_data.get("token") is None
TokenIsNone(body) == GetToken(body) = None

\* the comparison skipped when no API_TOKEN is configured
WrongToken_UnlessUnset(token, api_token) == api_token # None /\ token # api_token

\* the comparison with API_TOKEN left out
WrongToken_Unchecked(token, api_token) == FALSE

\* token != API_TOKEN
WrongToken(token, api_token) == token # api_token

\* "is None" in place of "not": an empty weather value passes
WeatherMissing_NoneOnly(body) == body.weather.kind \in {"absent", "null"}

\* not json_data.get('weather'): missing, null, "" and {} are all false
WeatherMissing(body) ==
    \/ body.weather.kind \in {"absent", "null"}
    \/ body.weather.kind = "string" /\ body.weather.str = ""
    \/ body.weather.kind = "object" /\ \A k \in WeatherKeys : body.weather.obj[k] = Absent

\* InvalidUsage(message, status_code) as handle_invalid_usage serialises it
InvalidUsage(message, status_code) ==
    [status |-> status_code, body |-> [message |-> message]]

\* an exception no handler catches: Flask answers 500 with no structured body
ServerFault == [status |-> 500, body |-> <<>>]

\* the weather check made before the token checks
AuthorizeOutcome_WeatherFirst(body, api_token) ==
    IF ~body.isObject THEN "attribute_error"
    ELSE IF WeatherMissing(body) THEN "weather_required"
    ELSE IF TokenIsNone(body) THEN "token_required"
    ELSE IF WrongToken(GetToken(body), api_token) THEN "wrong_token"
    ELSE "ok"

\* the wrapper's checks in order; "ok" means f() is called
AuthorizeOutcome(body, api_token) ==
    IF ~body.isObject THEN "attribute_error"
    ELSE IF TokenIsNone(body) THEN "token_required"
    ELSE IF WrongToken(GetToken(body), api_token) THEN "wrong_token"
    ELSE IF WeatherMissing(body) THEN "weather_required"
    ELSE "ok"

(***************************************************************************)
(* Provider client: the params dict each lookup hands to requests.request  *)
(***************************************************************************)
ParamKeys == {"key", "q", "days", "dt", "end_dt", "lang"}
NoParams == [k \in ParamKeys |-> Absent]

get_current_weather(key, q, lang) ==
    [url |-> "current.json",
     params |-> [NoParams EXCEPT !["key"] = key, !["q"] = q,
                                 !["lang"] = IF Truthy(lang) THEN lang ELSE Absent]]

\* days sent only when it lies in the documented range 1..14
get_weather_forecast_Validated(key, q, days, lang) ==
    [url |-> "forecast.json",
     params |-> [NoParams EXCEPT !["key"] = key, !["q"] = q,
                                 !["days"] = IF days \in {"int:0", "int:20"} THEN Absent ELSE days,
                                 !["lang"] = IF Truthy(lang) THEN lang ELSE Absent]]

get_weather_forecast(key, q, days, lang) ==
    [url |-> "forecast.json",
     params |-> [NoParams EXCEPT !["key"] = key, !["q"] = q, !["days"] = days,
                                 !["lang"] = IF Truthy(lang) THEN lang ELSE Absent]]

get_weather_history(key, q, dt, end_dt, lang) ==
    [url |-> "history.json",
     params |-> [NoParams EXCEPT !["key"] = key, !["q"] = q, !["dt"] = dt,
                                 !["end_dt"] = IF Truthy(end_dt) THEN end_dt ELSE Absent,
                                 !["lang"] = IF Truthy(lang) THEN lang ELSE Absent]]

\* the GET an endpoint issues for the weather object w
EndpointCall(ep, key, w) ==
    CASE ep = "current"  -> get_current_weather(key, Get(w, "q"), Get(w, "lang"))
      [] ep = "forecast" -> get_weather_forecast(key, Get(w, "q"), Get(w, "days"), Get(w, "lang"))
      [] ep = "history"  -> get_weather_history(key, Get(w, "q"), Get(w, "dt"),
                                                Get(w, "end_dt"), Get(w, "lang"))

\* what the provider can do with a GET: a body that decodes as JSON (under any HTTP
\* status), a body that does not, or no response at all
ProviderJson == {"json:weather_data", "json:error_object"}
ProviderOutcomes ==
    {[kind |-> "json", status |-> s, json |-> j] : s \in {200, 400}, j \in ProviderJson}
    \cup {[kind |-> "not_json", status |-> s, json |-> None] : s \in {200, 502}}
    \cup {[kind |-> "network_error", status |-> 0, json |-> None]}
NoReply == [kind |-> "none", status |-> 0, json |-> None]

(***************************************************************************)
(* add_execution_time_params_to_response                                   *)
(***************************************************************************)
\* datetime.isoformat(): seconds, and the microseconds only when they are not 0
isoformat(t) ==
    IF t % UsPerSec = 0 THEN <<t \div UsPerSec>> ELSE <<t \div UsPerSec, t % UsPerSec>>

\* str(end_dt - start_dt): a timedelta is normalised to days, seconds and
\* microseconds, of which only the days can be negative, and printed from them
timedelta_str(d) ==
    LET day == SecPerDay * UsPerSec
        rest == d % day
    IN [days |-> d \div day, seconds |-> rest \div UsPerSec, microseconds |-> rest % UsPerSec]

execution_time_params(start, end) ==
    [event_start_datetime |-> isoformat(start),
     event_finished_datetime |-> isoformat(end),
     event_duration |-> timedelta_str(end - start)]

\* response.update(execution_time_params) on the handler's {"weather": weather}
TimedResponse(weather, start, end) ==
    [status |-> 200,
     body |-> [weather |-> weather] @@ execution_time_params(start, end)]

(***************************************************************************)
(* The service                                                             *)
(***************************************************************************)
WeatherInit ==
    /\ API_TOKEN \in {None, "tokA"}
    /\ WEATHER_API_KEY \in {None, "key1"}
    /\ pc = "idle"
    /\ endpoint = "current"
    /\ json_data = NoBody
    /\ now \in 0..MaxTime
    /\ start_dt = 0
    /\ calls = <<>>
    /\ reply = NoReply
    /\ auth = "none"
    /\ response = NoResponse

\* a POST arrives at one of the three routes
Receive(ep, body) ==
    /\ pc = "idle"
    /\ pc' = "authorize"
    /\ endpoint' = ep
    /\ json_data' = body
    /\ calls' = <<>>
    /\ reply' = NoReply
    /\ auth' = "none"
    /\ response' = NoResponse
    /\ UNCHANGED <<API_TOKEN, WEATHER_API_KEY, now, start_dt, dvars>>

\* authorize_and_validate_request.wrapper up to the call of f()
AuthorizeAndValidate ==
    /\ pc = "authorize"
    /\ auth' = AuthorizeOutcome(json_data, API_TOKEN)
    /\ pc' = IF auth' = "ok" THEN "handler" ELSE "done"
    /\ response' =
         CASE auth' = "attribute_error"  -> ServerFault
           [] auth' = "token_required"   -> InvalidUsage("token is required", 400)
           [] auth' = "wrong_token"      -> InvalidUsage("wrong API token", 403)
           [] auth' = "weather_required" -> InvalidUsage("weather params must be provided", 400)
           [] auth' = "ok"               -> response
    /\ UNCHANGED <<API_TOKEN, WEATHER_API_KEY, endpoint, json_data, now, start_dt, calls, reply,
                   dvars>>

\* the timing wrapper reads the clock and calls the endpoint, which reads the
\* weather params and issues the GET; weather_params.get on a value that is no
\* dict raises AttributeError
CallHandler ==
    /\ pc = "handler"
    /\ start_dt' = now
    /\ IF json_data.weather.kind = "object"
       THEN /\ calls' = Append(calls, EndpointCall(endpoint, WEATHER_API_KEY, json_data.weather.obj))
            /\ pc' = "provider"
            /\ UNCHANGED response
       ELSE /\ pc' = "done"
            /\ response' = ServerFault
            /\ UNCHANGED calls
    /\ UNCHANGED <<API_TOKEN, WEATHER_API_KEY, endpoint, json_data, now, reply, auth, dvars>>

\* requests.request returns or raises, json.loads decodes or raises, and the
\* timing wrapper reads the clock again and completes the response
ProviderReturns(out) ==
    /\ pc = "provider"
    /\ pc' = "done"
    /\ reply' = out
    /\ response' = IF out.kind = "json" THEN TimedResponse(out.json, start_dt, now)
                   ELSE ServerFault
    /\ UNCHANGED <<API_TOKEN, WEATHER_API_KEY, endpoint, json_data, now, start_dt, calls, auth, dvars>>

\* the response is sent and the request's state is dropped: the service keeps
\* nothing between requests
SendResponse ==
    /\ pc = "done"
    /\ pc' = "idle"
    /\ endpoint' = "current"
    /\ json_data' = NoBody
    /\ start_dt' = 0
    /\ calls' = <<>>
    /\ reply' = NoReply
    /\ auth' = "none"
    /\ response' = NoResponse
    /\ UNCHANGED <<API_TOKEN, WEATHER_API_KEY, now, dvars>>

\* datetime.now() reads the local wall clock, which advances ...
Tick ==
    /\ now < MaxTime
    /\ now' = now + 1
    /\ UNCHANGED <<API_TOKEN, WEATHER_API_KEY, pc, endpoint, json_data, start_dt, calls, reply,
                   auth, response, dvars>>

\* ... and which is set back by a clock adjustment or at the end of daylight saving time
ClockSetBack ==
    /\ now > 0
    /\ now' = now - 1
    /\ UNCHANGED <<API_TOKEN, WEATHER_API_KEY, pc, endpoint, json_data, start_dt, calls, reply,
                   auth, response, dvars>>

(***************************************************************************)
(* Dataset builder (isw_data_parser/dataset.py).  Text is a sequence of    *)
(* one-character strings.                                                  *)
(***************************************************************************)
\* at most MaxFiles files in the tree, each of at most MaxTextLen characters
MaxFiles == 2
MaxTextLen == 1
\* the builder is run at most MaxRuns times on the same tree
MaxRuns == 2

\* characters of file contents: the delimiter, the quote and the newline
TextChars == {",", "\"", "\n"}
\* file names found in the tree (the same name may occur in several subdirectories)
FileNames == {<<"a", ".", "t">>, <<".", "a", ",">>}

SeqsUpTo(S, n) == UNION {[1..k -> S] : k \in 0..n}
\* every short text, and a few others: the old Mac and the Windows line end, a
\* quote before a delimiter, two lines of words
LongerTexts == {<<"\r">>, <<"\r", "\n">>, <<"\"", ",">>, <<"a", "\n", "b">>}
Texts == SeqsUpTo(TextChars, MaxTextLen) \cup LongerTexts
Files == [file : FileNames, content : Texts]
\* the files of the tree in the order os.walk meets them
Trees == SeqsUpTo(Files, MaxFiles)

\* index of the last "." of p, 0 if there is none
LastDot(p) == IF \E i \in 1..Len(p) : p[i] = "."
              THEN CHOOSE i \in 1..Len(p) : p[i] = "." /\ \A j \in (i + 1)..Len(p) : p[j] # "."
              ELSE 0

\* os.path.splitext(file)[0]: the extension starts at the last dot, unless only
\* dots precede it
splitext(p) ==
    LET d == LastDot(p)
    IN IF d > 0 /\ \E i \in 1..(d - 1) : p[i] # "." THEN SubSeq(p, 1, d - 1) ELSE p

\* text-mode read with universal newlines: "\r\n" and "\r" become "\n"
RECURSIVE read(_)
read(bytes) ==
    IF bytes = <<>> THEN <<>>
    ELSE IF Head(bytes) = "\r"
         THEN IF Len(bytes) >= 2 /\ bytes[2] = "\n"
              THEN <<"\n">> \o read(SubSeq(bytes, 3, Len(bytes)))
              ELSE <<"\n">> \o read(Tail(bytes))
         ELSE <<Head(bytes)>> \o read(Tail(bytes))

\* re.sub('\n', ' ', text)
re_sub_newline(text) == [i \in 1..Len(text) |-> IF text[i] = "\n" THEN " " ELSE text[i]]

\* the record appended for one file
FileRecord(f) == <<splitext(f.file), re_sub_newline(read(f.content))>>

\* read_data_from_files: one record per file, in traversal order
read_data_from_files(t) == [i \in 1..Len(t) |-> FileRecord(t[i])]

\* a writer that does not quote a field for the quote character it holds
NeedsQuoting_NotForQuotes(field) == \E i \in 1..Len(field) : field[i] \in {",", "\r", "\n"}

\* csv.writer, excel dialect, QUOTE_MINIMAL: a field is quoted when it holds the
\* delimiter, the quote character or a line terminator character
NeedsQuoting(field) == \E i \in 1..Len(field) : field[i] \in {",", "\"", "\r", "\n"}

RECURSIVE DoubleQuotes(_)
DoubleQuotes(field) ==
    IF field = <<>> THEN <<>>
    ELSE (IF Head(field) = "\"" THEN <<"\"", "\"">> ELSE <<Head(field)>>)
         \o DoubleQuotes(Tail(field))

WriteField(field) ==
    IF NeedsQuoting(field) THEN <<"\"">> \o DoubleQuotes(field) \o <<"\"">> ELSE field

\* writer.writerow of a two-field row, with the line terminator "\r\n"
writerow(row) == WriteField(row[1]) \o <<",">> \o WriteField(row[2]) \o <<"\r", "\n">>

RECURSIVE writerows(_)
writerows(rows) ==
    IF rows = <<>> THEN <<>> ELSE writerow(Head(rows)) \o writerows(Tail(rows))

\* open(dataset_path, 'a'): the old text is kept
OpenForWriting_Append(old) == old

\* open(dataset_path, 'w'): the text the file holds once opened
OpenForWriting(old) == <<>>

\* create_csv_dataset: the file after the header and the rows are written
create_csv_dataset(old, key_value_list) ==
    [exists |-> TRUE,
     text |-> OpenForWriting(old) \o writerow(<<<<"D", "a", "t", "e">>, <<"T", "e", "x", "t">>>>)
              \o writerows(key_value_list)]

\* datasets/dataset.csv before the first run: missing, or left by a run on other data
NoFile == [exists |-> FALSE, text |-> <<>>]
StaleFile == [exists |-> TRUE,
              text |-> <<"D", "a", "t", "e", ",", "T", "e", "x", "t", "\r", "\n",
                         "o", ",", "l", "\r", "\n">>]

DatasetInit ==
    /\ tree \in Trees
    /\ csv_file \in {NoFile, StaleFile}
    /\ runs = 0

\* main(): read the tree, then write the dataset
Main ==
    /\ runs < MaxRuns
    /\ runs' = runs + 1
    /\ csv_file' = create_csv_dataset(csv_file.text, read_data_from_files(tree))
    /\ UNCHANGED <<tree, wvars>>

(***************************************************************************)
(* A standard CSV reader (csv.reader, excel dialect, on a file opened with *)
(* newline=''), by which the written file is read back.                    *)
(***************************************************************************)
IsNewline(c) == c \in {"\r", "\n"}

\* st is the reader's state, field and row what it has gathered of the current
\* field and record, rows the records it has finished; after_cr says that the
\* last character ended a record with "\r", so that a "\n" now belongs to it
RECURSIVE csv_reader(_, _, _, _, _, _, _)
csv_reader(text, i, st, after_cr, field, row, rows) ==
    IF i > Len(text)
    THEN IF st = "start_record" THEN rows ELSE Append(rows, Append(row, field))
    ELSE LET c == text[i] IN
      CASE st = "start_record" /\ c = "\n" /\ after_cr ->
             csv_reader(text, i + 1, "start_record", FALSE, <<>>, <<>>, rows)
        [] st = "start_record" /\ IsNewline(c) /\ ~(c = "\n" /\ after_cr) ->
             csv_reader(text, i + 1, "start_record", c = "\r", <<>>, <<>>, Append(rows, <<>>))
        [] st \in {"start_record", "start_field"} /\ c = "\"" ->
             csv_reader(text, i + 1, "in_quoted_field", FALSE, <<>>, row, rows)
        [] st \in {"start_record", "start_field"} /\ c = "," ->
             csv_reader(text, i + 1, "start_field", FALSE, <<>>, Append(row, <<>>), rows)
        [] st = "start_field" /\ IsNewline(c) ->
             csv_reader(text, i + 1, "start_record", c = "\r", <<>>, <<>>,
                        Append(rows, Append(row, <<>>)))
        [] st \in {"start_record", "start_field"} /\ ~IsNewline(c) /\ c \notin {"\"", ","} ->
             csv_reader(text, i + 1, "in_field", FALSE, <<c>>, row, rows)
        [] st \in {"in_field", "quote_in_quoted_field"} /\ c = "," ->
             csv_reader(text, i + 1, "start_field", FALSE, <<>>, Append(row, field), rows)
        [] st \in {"in_field", "quote_in_quoted_field"} /\ IsNewline(c) ->
             csv_reader(text, i + 1, "start_record", c = "\r", <<>>, <<>>,
                        Append(rows, Append(row, field)))
        [] st = "in_field" /\ ~IsNewline(c) /\ c # "," ->
             csv_reader(text, i + 1, "in_field", FALSE, Append(field, c), row, rows)
        [] st = "in_quoted_field" /\ c = "\"" ->
             csv_reader(text, i + 1, "quote_in_quoted_field", FALSE, field, row, rows)
        [] st = "in_quoted_field" /\ c # "\"" ->
             csv_reader(text, i + 1, "in_quoted_field", FALSE, Append(field, c), row, rows)
        [] st = "quote_in_quoted_field" /\ c = "\"" ->
             csv_reader(text, i + 1, "in_quoted_field", FALSE, Append(field, c), row, rows)
        [] st = "quote_in_quoted_field" /\ ~IsNewline(c) /\ c \notin {"\"", ","} ->
             csv_reader(text, i + 1, "in_field", FALSE, Append(field, c), row, rows)

\* the rows a reader gets from the text of a file
ReadCsv(text) == csv_reader(text, 1, "start_record", FALSE, <<>>, <<>>, <<>>)

(***************************************************************************)
(* Specifications                                                          *)
(***************************************************************************)
DatasetIdle ==
    /\ tree = <<>>
    /\ csv_file = NoFile
    /\ runs = 0

WeatherIdle ==
    /\ API_TOKEN = None
    /\ WEATHER_API_KEY = None
    /\ pc = "idle"
    /\ endpoint = "current"
    /\ json_data = NoBody
    /\ now = 0
    /\ start_dt = 0
    /\ calls = <<>>
    /\ reply = NoReply
    /\ auth = "none"
    /\ response = NoResponse

Init == WeatherInit /\ DatasetIdle

Next ==
    \/ \E ep \in Endpoints, body \in Bodies : Receive(ep, body)
    \/ AuthorizeAndValidate
    \/ CallHandler
    \/ \E out \in ProviderOutcomes : ProviderReturns(out)
    \/ SendResponse
    \/ Tick
    \/ ClockSetBack

\* the weather service
Spec == Init /\ [][Next]_vars

DInit == WeatherIdle /\ DatasetInit

DNext == Main

\* the dataset builder
SpecDataset == DInit /\ [][DNext]_vars

(***************************************************************************)
(* Properties of the weather service (checked under Spec)                  *)
(***************************************************************************)
Answered == pc = "done"

\* the response is the structured error with this status and message
IsError(status, message) ==
    /\ response.status = status
    /\ DOMAIN response.body = {"message"}
    /\ response.body.message = message

\* the weather field is absent or empty
WeatherEmpty ==
    \/ json_data.weather.kind \in {"absent", "null"}
    \/ json_data.weather.kind = "string" /\ json_data.weather.str = ""
    \/ json_data.weather.kind = "object" /\ json_data.weather.obj = EmptyObject

\* the token is present, with a value, and equals API_TOKEN
TokenValid == json_data.token \notin {Absent, None} /\ json_data.token = API_TOKEN

\* the three checks pass for the request
ChecksPass == json_data.isObject /\ TokenValid /\ ~WeatherEmpty

\* C1: on every endpoint a body without a token field is answered 400 "token is
\* required", whatever its other fields are
C1_NoTokenIs400 ==
    (Answered /\ json_data.isObject /\ json_data.token = Absent)
        => IsError(400, "token is required")

C1_Witness ==
    /\ Answered /\ json_data.isObject /\ json_data.token = Absent
    /\ endpoint = "history" /\ json_data.weather.kind = "object" /\ ~WeatherEmpty
    /\ API_TOKEN = "tokA"
    /\ IsError(400, "token is required")

\* C2 as stated: a token that is present and is not API_TOKEN is answered 403
\* "wrong API token", whatever the weather field is
C2_PresentWrongTokenIs403 ==
    (Answered /\ json_data.isObject /\ json_data.token # Absent
        /\ GetToken(json_data) # API_TOKEN)
        => IsError(403, "wrong API token")

\* C2 amended: a token that is present with a value other than null and is not
\* API_TOKEN is answered 403 "wrong API token", whatever the weather field is; a
\* token that is null is answered 400 "token is required"
C2_NonNullWrongTokenIs403 ==
    /\ (Answered /\ json_data.isObject /\ json_data.token \notin {Absent, None}
          /\ json_data.token # API_TOKEN)
          => IsError(403, "wrong API token")
    /\ (Answered /\ json_data.isObject /\ json_data.token = None)
          => IsError(400, "token is required")

C2_Witness ==
    /\ Answered /\ json_data.isObject /\ json_data.token = "tokB" /\ API_TOKEN = "tokA"
    /\ json_data.weather.kind = "absent"
    /\ IsError(403, "wrong API token")

\* C3: a valid token with an absent or empty weather field is answered 400
\* "weather params must be provided"
C3_EmptyWeatherIs400 ==
    (Answered /\ json_data.isObject /\ TokenValid /\ WeatherEmpty)
        => IsError(400, "weather params must be provided")

C3_Witness ==
    /\ Answered /\ json_data.isObject /\ TokenValid
    /\ json_data.weather.kind = "object" /\ json_data.weather.obj = EmptyObject
    /\ IsError(400, "weather params must be provided")

\* C4: a provider GET is issued only once the wrapper has made its checks and all
\* three have passed, and a request answered 400 or 403 has caused no GET
C4_NoCallBeforeChecks ==
    /\ calls # <<>> => (auth = "ok" /\ ChecksPass)
    /\ (Answered /\ response.status \in {400, 403}) => calls = <<>>

C4_Witness ==
    /\ Answered /\ response.status = 403 /\ calls = <<>>
    /\ json_data.weather.kind = "object" /\ json_data.weather.obj["q"] = "Paris"

\* lexicographic order of two isoformat strings
RECURSIVE StrLess(_, _)
StrLess(a, b) ==
    IF b = <<>> THEN FALSE
    ELSE IF a = <<>> THEN TRUE
    ELSE IF Head(a) # Head(b) THEN Head(a) < Head(b)
    ELSE StrLess(Tail(a), Tail(b))

\* C5: when the request passed the checks and the provider's body decoded as JSON,
\* the response has exactly the keys weather and the three timing fields, weather
\* is the decoded JSON whatever the provider's status was, and the finish time is
\* not earlier than the start time
C5_FourKeysAndOrderedTimes ==
    (Answered /\ reply.kind = "json")
        => /\ DOMAIN response.body = {"weather", "event_start_datetime",
                                      "event_finished_datetime", "event_duration"}
           /\ response.body.weather = reply.json
           /\ ~StrLess(response.body.event_finished_datetime,
                       response.body.event_start_datetime)

\* a value that is supplied: the key is in the weather object
Supplied(k) == json_data.weather.obj[k] # Absent
Sent(k) == calls[1].params[k]

\* C6 as stated: days on the forecast endpoint, dt and end_dt on the history
\* endpoint reach the provider call as supplied, for every supplied value
C6_SuppliedValuesForwarded ==
    calls # <<>>
        => /\ (endpoint = "forecast" /\ Supplied("days"))
                => Sent("days") = json_data.weather.obj["days"]
           /\ (endpoint = "history" /\ Supplied("dt"))
                => Sent("dt") = json_data.weather.obj["dt"]
           /\ (endpoint = "history" /\ Supplied("end_dt"))
                => Sent("end_dt") = json_data.weather.obj["end_dt"]

\* C6 amended: days and dt reach the provider call as supplied, for every
\* supplied value; end_dt reaches it as supplied unless it is null or empty, and
\* then the call has no end_dt parameter
C6_ForwardedUnlessEmptyEndDt ==
    calls # <<>>
        => /\ (endpoint = "forecast" /\ Supplied("days"))
                => Sent("days") = json_data.weather.obj["days"]
           /\ (endpoint = "history" /\ Supplied("dt"))
                => Sent("dt") = json_data.weather.obj["dt"]
           /\ (endpoint = "history" /\ Supplied("end_dt"))
                => Sent("end_dt") = IF json_data.weather.obj["end_dt"] \in {None, ""}
                                    THEN Absent
                                    ELSE json_data.weather.obj["end_dt"]

C6_Witness ==
    /\ calls # <<>> /\ endpoint = "forecast"
    /\ json_data.weather.obj["days"] = "int:20" /\ Sent("days") = "int:20"

\* C9: with API_TOKEN unset no request passes the checks, whatever its token is:
\* none reaches the handler, none causes a provider call, and each is answered
\* with an error
C9_UnsetTokenRejectsAll ==
    API_TOKEN = None
        => /\ auth # "ok"
           /\ pc \notin {"handler", "provider"}
           /\ calls = <<>>
           /\ Answered => response.status \in {400, 403, 500}
           /\ (Answered /\ json_data.isObject /\ json_data.token \notin {Absent, None})
                => IsError(403, "wrong API token")

C9_Witness ==
    /\ API_TOKEN = None /\ Answered /\ json_data.token = "tokA"
    /\ json_data.weather.kind = "object" /\ ~WeatherEmpty
    /\ IsError(403, "wrong API token")

\* C10: a request that passes the checks has caused exactly one provider GET when
\* its response is produced
C10_ExactlyOneCall ==
    (Answered /\ ChecksPass) => Len(calls) = 1

(***************************************************************************)
(* Properties of the dataset builder (checked under SpecDataset)           *)
(***************************************************************************)
\* the content of a file with every newline ("\r\n", "\r" or "\n") replaced by a space
RECURSIVE Flattened(_)
Flattened(content) ==
    IF content = <<>> THEN <<>>
    ELSE IF Len(content) >= 2 /\ content[1] = "\r" /\ content[2] = "\n"
         THEN <<" ">> \o Flattened(SubSeq(content, 3, Len(content)))
         ELSE <<IF Head(content) \in {"\r", "\n"} THEN " " ELSE Head(content)>>
              \o Flattened(Tail(content))

\* the base name of a file without its extension
Stem(file) ==
    IF \E d \in 2..Len(file) : file[d] = "." /\ \E i \in 1..(d - 1) : file[i] # "."
    THEN SubSeq(file, 1, (CHOOSE d \in 2..Len(file) :
                             file[d] = "." /\ \A j \in (d + 1)..Len(file) : file[j] # ".") - 1)
    ELSE file

\* the rows the dataset of tree t should read back as
ExpectedRows(t) ==
    <<<<<<"D", "a", "t", "e">>, <<"T", "e", "x", "t">>>>>>
    \o [i \in 1..Len(t) |-> <<Stem(t[i].file), Flattened(t[i].content)>>]

\* C7: after a run the file reads back as N+1 rows, the header and then one row
\* per file of the tree in traversal order, files of the same name included
C7_RoundTrip ==
    runs >= 1 => LET rows == ReadCsv(csv_file.text)
                 IN /\ csv_file.exists
                    /\ Len(rows) = Len(tree) + 1
                    /\ rows = ExpectedRows(tree)

C7_Witness ==
    /\ runs >= 1 /\ Len(tree) = 2
    /\ tree[1].file = tree[2].file
    /\ tree[1].content = <<"\"", ",">> /\ tree[2].content = <<"\r", "\n">>
    /\ ReadCsv(csv_file.text) = ExpectedRows(tree)

\* C8: every run leaves the file with N+1 rows, and a run after the first leaves
\* the file as the run before it left it
C8_RerunOverwrites ==
    [][runs' = runs + 1
         => /\ Len(ReadCsv(csv_file'.text)) = Len(tree) + 1
            /\ runs >= 1 => csv_file' = csv_file]_vars

C8_Witness ==
    /\ runs = 2 /\ Len(tree) = 2
    /\ Len(ReadCsv(csv_file.text)) = 3

====
